---- MODULE Spec2Model ----
(***************************************************************************)
(* Cost attribution and currency normalisation of the CDAP / ADS           *)
(* reconciliation script (20251111-cdap-ads-compare-1.9.1.22-v1.py).       *)
(*                                                                         *)
(* Numbers.  Money is counted in hundredths (1000.00 is 100000), the       *)
(* project multiplier extra_rate and the exchange rate in tenths (1.1 is   *)
(* 11, 80.0 is 800, 78.5 is 785), so amount * extra_rate / rate, in        *)
(* hundredths, is the rational (amount * extra_rate) / rate, and           *)
(* round(x, 2) rounds that rational to an integer, ties to even.           *)
(*                                                                         *)
(* Nullable values.  None is the empty tuple and Some(x) the tuple <<x>>.  *)
(***************************************************************************)
EXTENDS Integers, Sequences, FiniteSets, TLC

VARIABLES
  db,      \* the backing store: the rows the script's queries read
  fault,   \* for each kind of query, the step at which it fails (or "none")
  conv,    \* the last call of currency_to_usd_with_details and its outcome
  attr,    \* the last attribution call and its outcome
  look,    \* the last call of a ledger query and its outcome
  dedup,   \* the last deduplication and its outcome
  run      \* run_validation: its parameters, its position and what it produced

vars == <<db, fault, conv, attr, look, dedup, run>>

None == <<>>
Some(x) == <<x>>
Val(o) == o[1]

\* Python truthiness of a nullable string: None and "" are falsy.
TruthyStr(o) == o # None /\ Val(o) # ""

----------------------------------------------------------------------------
(* The values the model draws from. *)

Dates == {"d1", "d2"}
PNs == {"p1"}
Currencies == {"INR", "inr", "EUR"}

\* project: no enabled row, a row whose extra_rate is NULL, a row with 1.1
ProjectRows == {None, Some(None), Some(Some(11))}
\* project_currency_config: no row, or the newest row's currency
CurrencyRows == {None} \cup {Some(c) : c \in Currencies}
\* rate: no row, or the newest row's rate (0.0 and 80.0)
RateRows == {None, Some(0), Some(800)}

\* source_money of a conversion: None, 0, 785.00, 1000.00
Amounts == {None, Some(0), Some(78500), Some(100000)}

LookupKinds ==
  {"project", "currency", "rate", "pn", "cost", "cost_by_channel", "channel_total",
   "cdap_rows", "ads_rows"}
ConvertKinds == {"project", "currency", "rate"}
\* "open": the session factory raises; "execute": the query raises;
\* "close": session.close() raises.
FaultSteps == {"none", "open", "execute", "close"}

----------------------------------------------------------------------------
(* The try / except / finally shape every query method shares:             *)
(*     try:     session = factory(); ... execute ...; return found         *)
(*     except Exception: return default                                    *)
(*     finally: session.close()                                            *)
(* A failing execute is caught and gives the default.  A failing factory   *)
(* is caught too, but the finally clause then reads the unbound local      *)
(* `session` and raises UnboundLocalError; a failing close() raises from   *)
(* the finally clause.  Both leave the method by an exception.             *)

Returned(v) == [raised |-> FALSE, value |-> v]
Raised(v) == [raised |-> TRUE, value |-> v]

SessionQuery(kind, found, default) ==
  CASE fault[kind] = "open" -> Raised(default)
    [] fault[kind] = "close" -> Raised(default)
    [] fault[kind] = "execute" -> Returned(default)
    [] OTHER -> Returned(found)

\* lines 673-698: None, or Some(extra_rate) with a NULL extra_rate read as 1.0
query_project_entity(pn) ==
  LET row == IF pn \in DOMAIN db.project THEN db.project[pn] ELSE None
      found == IF row = None THEN None
               ELSE IF Val(row) = None THEN Some(10) ELSE Some(Val(Val(row)))
  IN  SessionQuery("project", found, None)

\* lines 700-725
query_rate_entity(dates, base, symbols) ==
  LET key == <<dates, base, symbols>>
      found == IF key \in DOMAIN db.rate THEN db.rate[key] ELSE None
  IN  SessionQuery("rate", found, None)

\* lines 829-853
get_currency_by_pn(pn) ==
  LET found == IF pn \in DOMAIN db.currency THEN db.currency[pn] ELSE None
  IN  SessionQuery("currency", found, None)

----------------------------------------------------------------------------
(* str.upper(), character by character. *)

UpperChar(c) ==
  CASE c = "i" -> "I" [] c = "n" -> "N" [] c = "r" -> "R"
    [] c = "e" -> "E" [] c = "u" -> "U"
    [] OTHER -> c

RECURSIVE Upper(_)
Upper(s) == IF s = "" THEN "" ELSE UpperChar(Head(s)) \o Upper(Tail(s))

\* round(n / d, 2) on hundredths: the integer nearest to n / d, ties to even.
RoundHalfEven(n, d) ==
  LET nn == IF d < 0 THEN -n ELSE n
      dd == IF d < 0 THEN -d ELSE d
      q == nn \div dd
      r == nn % dd
  IN  IF 2 * r < dd THEN q
      ELSE IF 2 * r > dd THEN q + 1
      ELSE IF q % 2 = 0 THEN q ELSE q + 1

\* line 769: the default rate for INR, 78.5
DefaultInrRate == 785

\* line 742: extra_rate when the project has no enabled row, 1.0
DefaultExtraRate == 10

----------------------------------------------------------------------------
(* currency_to_usd_with_details, lines 727-789.  The outcome: whether the  *)
(* call left by an exception, the result dictionary, the divisor of the    *)
(* division at line 780 (None when that line was not executed) and the     *)
(* warnings and errors logged, each named after what it is about: "args"   *)
(* (line 737), "currency" (line 760), "rate_default" (line 770), "rate"    *)
(* (line 772), "calculation" (line 783), "rate_zero" (line 786).  Lines    *)
(* 741-745, which default extra_rate to 1.0 when no project entity is      *)
(* returned, log nothing, so no warning named "project" is ever recorded.  *)

EmptyConversion == [cost_usd |-> 0, currency |-> None, rate |-> None, extra_rate |-> None]

ConvOut(raised, result, divisor, warnings) ==
  [raised |-> raised, result |-> result, divisor |-> divisor, warnings |-> warnings]

\* lines 742-744: the multiplier of the project entity, 1.0 without one
extra_rate_of(project_entity) ==
  IF project_entity # None THEN Val(project_entity) ELSE DefaultExtraRate

extra_money_without_extra_rate(source_money, extra_rate) == source_money * 10

\* lines 749-751: source_money * extra_rate (extra_rate in tenths)
extra_money_of(source_money, extra_rate) == source_money * extra_rate

unresolved_currency_passes_amount(result, source_money) ==
  [result EXCEPT !.cost_usd = source_money]

\* lines 759-761: no currency: the result as it stands, its cost_usd 0.0
unresolved_currency_result(result, source_money) == result

default_rate_never(currency) == FALSE

default_rate_for_every_currency(currency) == TRUE

\* line 768: currency.upper() == "INR"
default_rate_applies(currency) == Upper(currency) = "INR"

rate_usable_unguarded(rate) == TRUE

\* line 777: if rate and rate != 0
rate_usable(rate) == rate # 0

currency_to_usd_with_details(dates, source_money, pn) ==
  IF source_money = None \/ pn = None
  THEN ConvOut(FALSE, EmptyConversion, None, {"args"})
  ELSE
  LET project_entity == query_project_entity(Val(pn)) IN
  IF project_entity.raised THEN ConvOut(TRUE, EmptyConversion, None, {})
  ELSE
  LET extra_rate == extra_rate_of(project_entity.value)
      r1 == [EmptyConversion EXCEPT !.extra_rate = Some(extra_rate)]
      extra_money == extra_money_of(Val(source_money), extra_rate)
      currency == get_currency_by_pn(Val(pn))
  IN
  IF currency.raised THEN ConvOut(TRUE, r1, None, {})
  ELSE IF ~TruthyStr(currency.value)
  THEN ConvOut(FALSE, unresolved_currency_result(r1, Val(source_money)), None, {"currency"})
  ELSE
  LET r2 == [r1 EXCEPT !.currency = currency.value]
      queried == query_rate_entity(dates, "USD", Val(currency.value))
  IN
  IF queried.raised THEN ConvOut(TRUE, r2, None, {})
  ELSE IF queried.value = None /\ ~default_rate_applies(Val(currency.value))
  THEN ConvOut(FALSE, r2, None, {"rate"})
  ELSE
  LET rate == IF queried.value = None THEN DefaultInrRate ELSE Val(queried.value)
      w == IF queried.value = None THEN {"rate_default"} ELSE {}
      r3 == [r2 EXCEPT !.rate = Some(rate)]
  IN
  IF rate_usable(rate)
  THEN IF rate = 0
       \* lines 782-784: ZeroDivisionError is caught, cost_usd stays 0.0
       THEN ConvOut(FALSE, r3, Some(rate), w \cup {"calculation"})
       ELSE ConvOut(FALSE, [r3 EXCEPT !.cost_usd = RoundHalfEven(extra_money, rate)],
                    Some(rate), w)
  ELSE ConvOut(FALSE, r3, None, w \cup {"rate_zero"})

----------------------------------------------------------------------------
(* Cost Lookup, lines 607-670, and the channel's project, lines 796-827.   *)
(* db.ledger gives, for each (dates, campaign_id, channel) that has rows   *)
(* in adjust_cost_record, the sum of their cost in hundredths.             *)

RECURSIVE SumOver(_, _)
SumOver(f, S) ==
  IF S = {} THEN 0
  ELSE LET k == CHOOSE x \in S : TRUE IN f[k] + SumOver(f, S \ {k})

RECURSIVE lstrip(_)
lstrip(s) == IF s # "" /\ Head(s) = " " THEN lstrip(Tail(s)) ELSE s

RECURSIVE rstrip(_)
rstrip(s) ==
  IF s # "" /\ SubSeq(s, Len(s), Len(s)) = " "
  THEN rstrip(SubSeq(s, 1, Len(s) - 1)) ELSE s

\* str.strip() for the space character
strip(s) == rstrip(lstrip(s))

blank_without_strip(x) == Len(x) = 0

\* lines 609, 638, 656: not x or x.strip() == ''; None and '' have no
\* character and are falsy
blank(x) == Len(x) = 0 \/ strip(x) = ""

\* a query of the ledger: whether it left by an exception, its value, and
\* whether a session was opened for it
LedgerQuery_sum_despite_failure(kind, sum) ==
  [raised |-> FALSE, value |-> sum, queried |-> TRUE]

LedgerQuery(kind, sum) ==
  LET q == SessionQuery(kind, sum, 0)
  IN  [raised |-> q.raised, value |-> q.value, queried |-> TRUE]

NotQueried == [raised |-> FALSE, value |-> 0, queried |-> FALSE]

\* lines 607-634
query_campaign_cost_by_channel(dates, campaign_id, channel) ==
  IF blank(campaign_id) THEN NotQueried
  ELSE LedgerQuery("cost_by_channel",
         SumOver(db.ledger, {k \in DOMAIN db.ledger :
                   k[1] = dates /\ k[2] = campaign_id /\ k[3] = channel}))

\* lines 636-652
query_channel_total_cost(dates, channel) ==
  IF blank(channel) THEN NotQueried
  ELSE LedgerQuery("channel_total",
         SumOver(db.ledger, {k \in DOMAIN db.ledger : k[1] = dates /\ k[3] = channel}))

\* lines 654-670
query_campaign_cost(dates, campaign_id) ==
  IF blank(campaign_id) THEN NotQueried
  ELSE LedgerQuery("cost",
         SumOver(db.ledger, {k \in DOMAIN db.ledger : k[1] = dates /\ k[2] = campaign_id}))

\* lines 796-827
get_pn_by_channel(channel_code) ==
  SessionQuery("pn",
    IF channel_code \in DOMAIN db.pn_of THEN db.pn_of[channel_code] ELSE None, None)

----------------------------------------------------------------------------
(* The cost of one campaign, lines 521-600: the CostInfo and the ledger    *)
(* queries issued for it.  The loops over the groups also record, in       *)
(* `invoked`, each strategy they call and the (dates, channel,             *)
(* campaign_id) of the base row they call it for.                          *)

EmptyCost ==
  [cost_usd |-> 0, original_cost |-> 0, currency |-> None, rate |-> None,
   extra_rate |-> None]

\* result.update(conversion_result), lines 547 and 588
updated(result, conversion) ==
  [result EXCEPT !.cost_usd = conversion.cost_usd, !.currency = conversion.currency,
                 !.rate = conversion.rate, !.extra_rate = conversion.extra_rate]

CostOut(info, calls) == [info |-> info, calls |-> calls]

\* lines 521-559: the strategy that ignores the channel
calculate_campaign_cost_with_details(dates, campaign_id, pn) ==
  LET q == query_campaign_cost(dates, campaign_id)
      calls == IF q.queried THEN << <<"cost", dates, campaign_id>> >> ELSE <<>>
      result == [EmptyCost EXCEPT !.original_cost = q.value]
  IN  IF q.raised THEN CostOut(EmptyCost, calls)
      ELSE IF q.value = 0 THEN CostOut(result, calls)
      ELSE LET conversion == currency_to_usd_with_details(dates, Some(q.value), pn)
           IN  IF conversion.raised THEN CostOut(result, calls)
               ELSE CostOut(updated(result, conversion.result), calls)

\* lines 561-600: the strategy qualified by the channel
calculate_campaign_cost_with_channel_details(dates, campaign_id, channel, pn) ==
  LET q == query_campaign_cost_by_channel(dates, campaign_id, channel)
      calls == IF q.queried THEN << <<"cost_by_channel", dates, campaign_id, channel>> >>
               ELSE <<>>
      result == [EmptyCost EXCEPT !.original_cost = q.value]
  IN  IF q.raised THEN CostOut(EmptyCost, calls)
      ELSE IF q.value = 0 THEN CostOut(result, calls)
      ELSE IF ~TruthyStr(pn) THEN CostOut(result, calls)
      ELSE LET conversion == currency_to_usd_with_details(dates, Some(q.value), pn)
           IN  IF conversion.raised THEN CostOut(result, calls)
               ELSE CostOut(updated(result, conversion.result), calls)

\* lines 153-173 and 387-407: the entry of channel_total_cost_cache
channel_total_entry(dates, channel, pn) ==
  LET q == query_channel_total_cost(dates, channel)
      calls == IF q.queried THEN << <<"channel_total", dates, channel>> >> ELSE <<>>
  IN  IF q.raised THEN [raised |-> TRUE, entry |-> EmptyCost, calls |-> calls]
      ELSE IF q.value > 0 /\ TruthyStr(pn)
      THEN LET conversion == currency_to_usd_with_details(dates, Some(q.value), pn)
           IN  [raised |-> conversion.raised,
                entry |-> updated([EmptyCost EXCEPT !.original_cost = q.value],
                                  conversion.result),
                calls |-> calls]
      ELSE [raised |-> FALSE, entry |-> EmptyCost, calls |-> calls]

recharge_conversion_never_converted(dates, day_recharge, pn) ==
  [raised |-> FALSE, info |-> EmptyConversion]

\* lines 223-247 and 470-494: the conversion of one row's day_recharge
recharge_conversion_of(dates, day_recharge, pn) ==
  IF day_recharge > 0 /\ TruthyStr(pn)
  THEN LET conversion == currency_to_usd_with_details(dates, Some(day_recharge), pn)
       IN  [raised |-> conversion.raised, info |-> conversion.result]
  ELSE IF TruthyStr(pn)
  THEN LET currency == get_currency_by_pn(Val(pn))
           project_entity == query_project_entity(Val(pn))
           rate == IF ~currency.raised /\ TruthyStr(currency.value)
                   THEN query_rate_entity(dates, "USD", Val(currency.value))
                   ELSE Returned(None)
       IN  [raised |-> currency.raised \/ project_entity.raised \/ rate.raised,
            info |-> [cost_usd |-> 0, currency |-> currency.value, rate |-> rate.value,
                      extra_rate |-> Some(extra_rate_of(project_entity.value))]]
  ELSE [raised |-> FALSE, info |-> EmptyConversion]

----------------------------------------------------------------------------
(* Rows.  A row is the tuple the query returns; field i of the code is     *)
(* position i + 1 here.  CDAP (lines 76-88): table_name, dates, bdates,    *)
(* channel, source, campaign_id, active, history_active_offset_days,       *)
(* day_recharge, threshold_value.  ADS after the id is dropped (line 331): *)
(* the same with pn before threshold_value.                                *)

Channels == {"a", "a_b"}
Campaigns == {"c", "b_c"}
\* day_recharge: NULL, 100.00, 200.00
Recharges == {None, Some(10000), Some(20000)}

CdapRows ==
  { <<"trend", d, "b1", ch, "s1", c, 1, 5, r, 3>> :
      d \in Dates, ch \in Channels, c \in Campaigns, r \in Recharges }

AdsRows ==
  { <<"trend_campaign", d, "b1", ch, "s1", c, 1, 5, r, p, 3>> :
      d \in Dates, ch \in Channels, c \in Campaigns, r \in Recharges,
      p \in {None} \cup {Some(x) : x \in PNs} }

\* the longest row sequence an attribution call is given
MaxRows == 2

SeqsUpTo(S, n) == UNION { [1..m -> S] : m \in 0..n }

\* lines 126-129 and 364-367: f"{dates}_{channel}_{campaign_id}"
key_of(row) == row[2] \o "_" \o row[4] \o "_" \o row[6]

group_keys_of_every_row(results) == [i \in DOMAIN results |-> key_of(results[i])]

\* lines 123-133: the keys of group_map in insertion order
RECURSIVE group_keys(_)
group_keys(results) ==
  IF results = <<>> THEN <<>>
  ELSE LET front == group_keys(SubSeq(results, 1, Len(results) - 1))
           key == key_of(results[Len(results)])
       IN  IF \E i \in DOMAIN front : front[i] = key THEN front
           ELSE Append(front, key)

\* lines 131-133: group_map[key]
group_rows(results, key) == SelectSeq(results, LAMBDA row : key_of(row) = key)

\* lines 190 and 429: row == group_rows[0], equality of the tuples' values
is_first_record(row, rows_of_group) == row = rows_of_group[1]

\* lines 193-206 and 432-457: the group's cost on its first record, zero
\* cost with the group's currency, rate and extra_rate on the others
cost_info_of(first, group_cost) ==
  IF first THEN group_cost
  ELSE [group_cost EXCEPT !.cost_usd = 0, !.original_cost = 0]

\* lines 210 and 461, 217-221: NULL is 0.0
day_recharge_of(raw) == IF raw # None THEN Val(raw) ELSE 0

----------------------------------------------------------------------------
(* process_cdap_data_with_cost, lines 115-269. *)

in_cache_never(channel, cache) == FALSE

\* lines 150, 155, 220 and 388: channel not in the cache
in_cache(channel, cache) == channel \in DOMAIN cache

CdapStart ==
  [raised |-> FALSE, pn_cache |-> <<>>, total_cache |-> <<>>, group_costs |-> <<>>,
   invoked |-> <<>>, calls |-> <<>>]

\* lines 142-178: one turn of the loop over group_map.items()
cdap_group_step(key, results, st) ==
  LET base_row == group_rows(results, key)[1]
      campaign_id == base_row[6]
      dates == base_row[2]
      channel == base_row[4]
      cached == in_cache(channel, st.pn_cache)
      looked == IF cached THEN Returned(st.pn_cache[channel]) ELSE get_pn_by_channel(channel)
      calls1 == IF cached THEN st.calls ELSE Append(st.calls, <<"pn", channel>>)
      pn_cache == IF cached THEN st.pn_cache ELSE (channel :> looked.value) @@ st.pn_cache
      pn == looked.value
  IN  IF looked.raised THEN [st EXCEPT !.raised = TRUE, !.calls = calls1]
      ELSE
      LET totalled == in_cache(channel, st.total_cache)
          total == IF totalled
                   THEN [raised |-> FALSE, entry |-> st.total_cache[channel], calls |-> <<>>]
                   ELSE channel_total_entry(dates, channel, pn)
          calls2 == calls1 \o total.calls
          total_cache == IF totalled THEN st.total_cache
                         ELSE (channel :> total.entry) @@ st.total_cache
      IN  IF total.raised
          THEN [st EXCEPT !.raised = TRUE, !.calls = calls2, !.pn_cache = pn_cache]
          ELSE
          LET cost == calculate_campaign_cost_with_channel_details(
                        dates, campaign_id, channel, pn)
          IN  [raised |-> FALSE, pn_cache |-> pn_cache, total_cache |-> total_cache,
               group_costs |-> (key :> cost.info) @@ st.group_costs,
               invoked |-> Append(st.invoked, <<"with_channel", dates, channel, campaign_id>>),
               calls |-> calls2 \o cost.calls]

RECURSIVE cdap_group_loop(_, _, _)
cdap_group_loop(keys, results, st) ==
  IF keys = <<>> \/ st.raised THEN st
  ELSE cdap_group_loop(Tail(keys), results, cdap_group_step(Head(keys), results, st))

reordered_row_whole(row, first_cost, second_cost, recharge_conversion, day_recharge) ==
  row \o <<first_cost.cost_usd, first_cost.original_cost,
           second_cost.cost_usd, second_cost.original_cost,
           recharge_conversion.cost_usd, day_recharge>>

\* lines 253-264 and 500-514: row[:7], then the two cost pairs (the channel
\* total and the group's cost in CDAP, the cost without and with the channel
\* in ADS), then the recharge in USD and as read
reordered_row(row, first_cost, second_cost, recharge_conversion, day_recharge) ==
  SubSeq(row, 1, 7) \o
  <<first_cost.cost_usd, first_cost.original_cost,
    second_cost.cost_usd, second_cost.original_cost,
    recharge_conversion.cost_usd, day_recharge>>

RowsStart(pn_cache) ==
  [raised |-> FALSE, rows |-> <<>>, recharge |-> <<>>, pn_cache |-> pn_cache,
   calls |-> <<>>]

\* lines 182-266: one turn of the loop over results
cdap_row_step(row, results, groups, st) ==
  LET dates == row[2]
      channel == row[4]
      key == key_of(row)
      first == is_first_record(row, group_rows(results, key))
      cost_info == cost_info_of(first, groups.group_costs[key])
      day_recharge == day_recharge_of(row[9])
      cached == in_cache(channel, st.pn_cache)
      looked == IF cached THEN Returned(st.pn_cache[channel]) ELSE get_pn_by_channel(channel)
      calls == IF cached THEN st.calls ELSE Append(st.calls, <<"pn", channel>>)
      pn_cache == IF cached THEN st.pn_cache ELSE (channel :> looked.value) @@ st.pn_cache
  IN  IF looked.raised THEN [st EXCEPT !.raised = TRUE, !.calls = calls]
      ELSE
      LET recharge_conversion == recharge_conversion_of(dates, day_recharge, looked.value)
      IN  \* line 257: channel_total_cost_cache[channel] raises KeyError for a
          \* channel the loop over the groups did not see
          IF recharge_conversion.raised \/ channel \notin DOMAIN groups.total_cache
          THEN [st EXCEPT !.raised = TRUE, !.calls = calls, !.pn_cache = pn_cache]
          ELSE
          LET channel_total_info == groups.total_cache[channel]
          IN  [raised |-> FALSE,
               rows |-> Append(st.rows,
                          reordered_row(row, channel_total_info, cost_info,
                                        recharge_conversion.info, day_recharge)),
               recharge |-> Append(st.recharge, recharge_conversion.info),
               pn_cache |-> pn_cache,
               calls |-> calls]

RECURSIVE cdap_row_loop(_, _, _, _)
cdap_row_loop(rest, results, groups, st) ==
  IF rest = <<>> \/ st.raised THEN st
  ELSE cdap_row_loop(Tail(rest), results, groups,
                     cdap_row_step(Head(rest), results, groups, st))

\* what an attribution call leaves: whether it raised, the rows returned,
\* the recharge conversion of each row, the group costs, the caches, and the
\* lookups issued by the loop over the groups and by the loop over the rows
ProcessOut(raised, rows, recharge, groups, group_calls, row_calls) ==
  [raised |-> raised, rows |-> rows, recharge |-> recharge, groups |-> groups,
   group_calls |-> group_calls, row_calls |-> row_calls]

\* lines 268-269: the rows are returned unless a loop was left by an exception
processed(groups, done) ==
  IF groups.raised THEN ProcessOut(TRUE, <<>>, <<>>, groups, groups.calls, <<>>)
  ELSE IF done.raised THEN ProcessOut(TRUE, <<>>, <<>>, groups, groups.calls, done.calls)
  ELSE ProcessOut(FALSE, done.rows, done.recharge, groups, groups.calls, done.calls)

\* lines 180-266: the loop over results, after the loop over the groups
cdap_rows(results, groups) ==
  processed(groups, IF groups.raised THEN RowsStart(<<>>)
                    ELSE cdap_row_loop(results, results, groups,
                                       RowsStart(groups.pn_cache)))

process_cdap_data_with_cost(results) ==
  IF results = <<>> THEN ProcessOut(FALSE, results, <<>>, CdapStart, <<>>, <<>>)
  ELSE cdap_rows(results, cdap_group_loop(group_keys(results), results, CdapStart))

----------------------------------------------------------------------------
(* process_ads_data_with_cost, lines 353-519. *)

AdsStart ==
  [raised |-> FALSE, total_cache |-> <<>>, costs_without_channel |-> <<>>,
   costs_with_channel |-> <<>>, invoked |-> <<>>, calls |-> <<>>]

\* lines 380-417: one turn of the loop over group_map.items()
ads_group_step(key, results, st) ==
  LET base_row == group_rows(results, key)[1]
      campaign_id == base_row[6]
      dates == base_row[2]
      pn == base_row[10]
      channel == base_row[4]
      totalled == in_cache(channel, st.total_cache)
      total == IF totalled
               THEN [raised |-> FALSE, entry |-> st.total_cache[channel], calls |-> <<>>]
               ELSE channel_total_entry(dates, channel, pn)
      calls1 == st.calls \o total.calls
  IN  IF total.raised THEN [st EXCEPT !.raised = TRUE, !.calls = calls1]
      ELSE
      LET without == calculate_campaign_cost_with_details(dates, campaign_id, pn)
          with == calculate_campaign_cost_with_channel_details(
                    dates, campaign_id, channel, pn)
      IN  [raised |-> FALSE,
           total_cache |-> IF totalled THEN st.total_cache
                           ELSE (channel :> total.entry) @@ st.total_cache,
           costs_without_channel |-> (key :> without.info) @@ st.costs_without_channel,
           costs_with_channel |-> (key :> with.info) @@ st.costs_with_channel,
           invoked |-> st.invoked \o << <<"without_channel", dates, channel, campaign_id>>,
                                        <<"with_channel", dates, channel, campaign_id>> >>,
           calls |-> calls1 \o without.calls \o with.calls]

RECURSIVE ads_group_loop(_, _, _)
ads_group_loop(keys, results, st) ==
  IF keys = <<>> \/ st.raised THEN st
  ELSE ads_group_loop(Tail(keys), results, ads_group_step(Head(keys), results, st))

\* lines 421-516: one turn of the loop over results
ads_row_step(row, results, groups, st) ==
  LET dates == row[2]
      key == key_of(row)
      first == is_first_record(row, group_rows(results, key))
      cost_info_without_channel == cost_info_of(first, groups.costs_without_channel[key])
      cost_info_with_channel == cost_info_of(first, groups.costs_with_channel[key])
      day_recharge == day_recharge_of(row[9])
      pn == row[10]
      recharge_conversion == recharge_conversion_of(dates, day_recharge, pn)
  IN  IF recharge_conversion.raised THEN [st EXCEPT !.raised = TRUE]
      ELSE [st EXCEPT
              !.rows = Append(st.rows,
                         reordered_row(row, cost_info_without_channel,
                                       cost_info_with_channel,
                                       recharge_conversion.info, day_recharge)),
              !.recharge = Append(st.recharge, recharge_conversion.info)]

RECURSIVE ads_row_loop(_, _, _, _)
ads_row_loop(rest, results, groups, st) ==
  IF rest = <<>> \/ st.raised THEN st
  ELSE ads_row_loop(Tail(rest), results, groups,
                    ads_row_step(Head(rest), results, groups, st))

\* lines 419-516: the loop over results, after the loop over the groups
ads_rows(results, groups) ==
  processed(groups, IF groups.raised THEN RowsStart(<<>>)
                    ELSE ads_row_loop(results, results, groups, RowsStart(<<>>)))

process_ads_data_with_cost(results) ==
  IF results = <<>> THEN ProcessOut(FALSE, results, <<>>, AdsStart, <<>>, <<>>)
  ELSE ads_rows(results, ads_group_loop(group_keys(results), results, AdsStart))

----------------------------------------------------------------------------
(* Deduplication, lines 320-334 (lines 193-207 of the older script are the *)
(* same text).  A raw ADS row is the tuple of lines 277-290: table_name,   *)
(* id, dates, bdates, channel, source, campaign_id, active,                *)
(* history_active_offset_days, day_recharge, pn, threshold_value.          *)

RowIds == {1, 2, 3}
Actives == {1, 2}

\* the rows a query for one channel and one date may return
RawAdsRows(ch, d) ==
  { <<"trend_campaign", id, d, "b1", ch, "s1", "c", act, 5, Some(10000), Some("p1"), 3>> :
      id \in RowIds, act \in Actives }

\* the longest result of the ADS query that is deduplicated
MaxRaw == 3

\* line 325: row[1]
row_id_of(row) == row[2]

is_duplicate_never(row_id, existed_ids) == FALSE

\* line 326: row_id in existed_ids
is_duplicate(row_id, existed_ids) == row_id \in existed_ids

deduplicated_row_with_id(row) == row

\* line 331: (row[0],) + row[2:]
deduplicated_row(row) == <<row[1]>> \o SubSeq(row, 3, Len(row))

\* lines 321-322; `kept` holds the rows appended as they were before line
\* 331, `warnings` the row_id of each warning logged at line 327
DedupStart ==
  [existed_ids |-> {}, deduplicated_results |-> <<>>, kept |-> <<>>, warnings |-> <<>>]

\* lines 325-332: one turn of the loop over results
dedup_step(row, st) ==
  IF is_duplicate(row_id_of(row), st.existed_ids)
  THEN [st EXCEPT !.warnings = Append(@, row_id_of(row))]
  ELSE [st EXCEPT !.existed_ids = @ \cup {row_id_of(row)},
                  !.deduplicated_results = Append(@, deduplicated_row(row)),
                  !.kept = Append(@, row)]

RECURSIVE dedup_loop(_, _)
dedup_loop(rest, st) ==
  IF rest = <<>> THEN st ELSE dedup_loop(Tail(rest), dedup_step(Head(rest), st))

\* lines 320-334
deduplicate(results) == dedup_loop(results, DedupStart)

----------------------------------------------------------------------------
(* The two retrievals, lines 73-112 and 273-351, and                       *)
(* validate_single_channel, lines 860-877.  db.cdap and db.ads are the     *)
(* rows of the two trend tables that pass the filters of the queries other *)
(* than channel and dates, in the order of ORDER BY.                       *)

\* lines 91-92 and 293-295: WHERE hact.channel = :channel AND hact.dates = :dates
cdap_rows_of(channel, dates) ==
  SelectSeq(db.cdap, LAMBDA row : row[4] = channel /\ row[2] = dates)

ads_rows_of(channel, dates) ==
  SelectSeq(db.ads, LAMBDA row : row[5] = channel /\ row[3] = dates)

\* lines 106-110 and 345-349: the processed rows, or [] from the except
\* clause when the processing raised
rows_or_empty(out) == IF out.raised THEN <<>> ELSE out.rows

\* lines 336-346: nothing left after the deduplication is returned as []
ads_processed(deduplicated_results) ==
  IF Len(deduplicated_results) = 0 THEN <<>>
  ELSE rows_or_empty(process_ads_data_with_cost(deduplicated_results))

\* lines 103-112
query_cdap_base_detail_data(channel, dates) ==
  SessionQuery("cdap_rows",
               rows_or_empty(process_cdap_data_with_cost(cdap_rows_of(channel, dates))),
               <<>>)

\* lines 305-351
query_ads_backend_detail_data(channel, dates) ==
  SessionQuery("ads_rows",
               ads_processed(deduplicate(ads_rows_of(channel, dates)).deduplicated_results),
               <<>>)

\* lines 871-877
result_record(channel, dates, cdap_base_data, ads_backend_data) ==
  [channel |-> channel, dates |-> dates, cdap_base_data |-> cdap_base_data,
   ads_backend_data |-> ads_backend_data, differences |-> <<>>]

validated_ads_first(channel, dates, cdap, ads) ==
  [raised |-> cdap.raised \/ ads.raised,
   record |-> [channel |-> channel, dates |-> dates, cdap_base_data |-> cdap.value,
               ads_backend_data |-> ads.value, differences |-> <<>>],
   retrievals |-> << <<"ads", channel>>, <<"cdap", channel>> >>]

\* lines 865-877: the record, or the exception of a retrieval, and the
\* retrievals called
validated(channel, dates, cdap, ads) ==
  IF cdap.raised
  THEN [raised |-> TRUE, record |-> result_record(channel, dates, <<>>, <<>>),
        retrievals |-> << <<"cdap", channel>> >>]
  ELSE [raised |-> ads.raised,
        record |-> result_record(channel, dates, cdap.value, ads.value),
        retrievals |-> << <<"cdap", channel>>, <<"ads", channel>> >>]

\* lines 860-877
validate_single_channel(channel, dates) ==
  validated(channel, dates, query_cdap_base_detail_data(channel, dates),
            query_ads_backend_detail_data(channel, dates))

----------------------------------------------------------------------------
(* The state machine of the conversion: a store and a fault are fixed,     *)
(* then conversions are called.                                            *)

NoCall == [called |-> FALSE]

\* run_validation has not been called
NoRun == [pc |-> "idle"]

NoFault == [k \in LookupKinds |-> "none"]

InitConvert ==
  /\ \E p \in ProjectRows, c \in CurrencyRows, f \in [Dates -> RateRows] :
        db = [project |-> [pn \in PNs |-> p],
              currency |-> [pn \in PNs |-> c],
              rate |-> IF c = None THEN <<>>
                       ELSE [k \in {<<d, "USD", Val(c)>> : d \in Dates} |-> f[k[1]]],
              pn_of |-> [ch \in Channels |-> None],
              ledger |-> <<>>]
  /\ \E s \in [ConvertKinds -> FaultSteps] :
        fault = [k \in LookupKinds |-> IF k \in ConvertKinds THEN s[k] ELSE "none"]
  /\ conv = NoCall
  /\ attr = NoCall
  /\ look = NoCall
  /\ dedup = NoCall
  /\ run = NoRun

Convert(dates, source_money, pn) ==
  /\ conv' = [called |-> TRUE, dates |-> dates, source_money |-> source_money, pn |-> pn,
              out |-> currency_to_usd_with_details(dates, source_money, pn)]
  /\ UNCHANGED <<db, fault, attr, look, dedup, run>>

NextConvert ==
  \E d \in Dates, m \in Amounts, p \in {None} \cup {Some(x) : x \in PNs} :
     Convert(d, m, p)

SpecConvert == InitConvert /\ [][NextConvert]_vars

----------------------------------------------------------------------------
(* The state machine of the attribution: a store is fixed, then the two    *)
(* attribution methods are called on row sequences, one call in a          *)
(* behaviour: a call keeps nothing for the next (its caches are locals).   *)
(* The project p1 has the multiplier 1.1 and the currency INR, with a rate *)
(* of 80.0 for d1 and no rate row for d2; channel "a" belongs to p1 and    *)
(* channel "a_b" to no project; the ledger varies.                         *)

LedgerKeys == Dates \X Campaigns \X Channels

\* the cost, in hundredths, of the ledger rows of a key that has any
LedgerCost(k) ==
  (IF k[1] = "d1" THEN 100000 ELSE 20000) + (IF k[2] = "c" THEN 0 ELSE 5000)
    + (IF k[3] = "a" THEN 0 ELSE 700)

\* every key has ledger rows, or only the keys of channel "a" on d1
Ledgers ==
  { [k \in S |-> LedgerCost(k)] :
      S \in {LedgerKeys, {k \in LedgerKeys : k[1] = "d1" /\ k[3] = "a"}} }

InitAttr ==
  /\ \E ledger \in Ledgers :
        db = [project |-> [pn \in PNs |-> Some(Some(11))],
              currency |-> [pn \in PNs |-> Some("INR")],
              rate |-> (<<"d1", "USD", "INR">> :> Some(800)),
              pn_of |-> ("a" :> Some("p1")) @@ ("a_b" :> None),
              ledger |-> ledger]
  /\ fault = NoFault
  /\ conv = NoCall
  /\ attr = NoCall
  /\ look = NoCall
  /\ dedup = NoCall
  /\ run = NoRun

ProcessCdap(results) ==
  /\ attr' = [called |-> TRUE, pipeline |-> "cdap", results |-> results,
              out |-> process_cdap_data_with_cost(results)]
  /\ UNCHANGED <<db, fault, conv, look, dedup, run>>

ProcessAds(results) ==
  /\ attr' = [called |-> TRUE, pipeline |-> "ads", results |-> results,
              out |-> process_ads_data_with_cost(results)]
  /\ UNCHANGED <<db, fault, conv, look, dedup, run>>

CallCdap == ~attr.called /\ \E results \in SeqsUpTo(CdapRows, MaxRows) : ProcessCdap(results)

CallAds == ~attr.called /\ \E results \in SeqsUpTo(AdsRows, MaxRows) : ProcessAds(results)

NextAttr == CallCdap \/ CallAds

SpecAttr == InitAttr /\ [][NextAttr]_vars

----------------------------------------------------------------------------
(* The state machine of the ledger queries, lines 607-670: a ledger and a  *)
(* fault for each query are fixed, then the queries are called.  A         *)
(* campaign_id is None, or a string that may be empty or hold only spaces. *)

CampaignIds == {"", " ", "  ", "c", " c ", "b_c"}

ChannelCodes == {"", "a", "a_b"}

LedgerKinds == {"cost", "cost_by_channel", "channel_total"}

\* a nullable argument as the method receives it
Arg(o) == IF o = None THEN None ELSE Val(o)

InitLookup ==
  /\ \E ledger \in Ledgers :
        db = [project |-> [pn \in PNs |-> Some(Some(11))],
              currency |-> [pn \in PNs |-> Some("INR")],
              rate |-> (<<"d1", "USD", "INR">> :> Some(800)),
              pn_of |-> ("a" :> Some("p1")) @@ ("a_b" :> None),
              ledger |-> ledger]
  /\ \E s \in [LedgerKinds -> FaultSteps] :
        fault = [k \in LookupKinds |-> IF k \in LedgerKinds THEN s[k] ELSE "none"]
  /\ conv = NoCall
  /\ attr = NoCall
  /\ look = NoCall
  /\ dedup = NoCall
  /\ run = NoRun

Looked(op, dates, campaign_id, channel, out) ==
  /\ look' = [called |-> TRUE, op |-> op, dates |-> dates, campaign_id |-> campaign_id,
              channel |-> channel, out |-> out]
  /\ UNCHANGED <<db, fault, conv, attr, dedup, run>>

LookupCost ==
  \E d \in Dates, c \in {None} \cup {Some(x) : x \in CampaignIds} :
     Looked("cost", d, c, None, query_campaign_cost(d, Arg(c)))

LookupCostByChannel ==
  \E d \in Dates, c \in {None} \cup {Some(x) : x \in CampaignIds}, ch \in Channels :
     Looked("cost_by_channel", d, c, Some(ch),
            query_campaign_cost_by_channel(d, Arg(c), ch))

LookupChannelTotal ==
  \E d \in Dates, ch \in {None} \cup {Some(x) : x \in ChannelCodes} :
     Looked("channel_total", d, None, ch, query_channel_total_cost(d, Arg(ch)))

NextLookup == LookupCost \/ LookupCostByChannel \/ LookupChannelTotal

SpecLookup == InitLookup /\ [][NextLookup]_vars

----------------------------------------------------------------------------
(* The state machine of the deduplication: the result of one ADS query is  *)
(* deduplicated, then the deduplication is applied to its own output.      *)

InitDedup ==
  /\ db = [project |-> [pn \in PNs |-> Some(Some(11))],
           currency |-> [pn \in PNs |-> Some("INR")],
           rate |-> (<<"d1", "USD", "INR">> :> Some(800)),
           pn_of |-> ("a" :> Some("p1")) @@ ("a_b" :> None),
           ledger |-> <<>>]
  /\ fault = NoFault
  /\ conv = NoCall
  /\ attr = NoCall
  /\ look = NoCall
  /\ dedup = NoCall
  /\ run = NoRun

Deduplicate ==
  /\ ~dedup.called
  /\ \E d \in Dates : \E results \in SeqsUpTo(RawAdsRows("a", d), MaxRaw) :
        dedup' = [called |-> TRUE, twice |-> FALSE, results |-> results,
                  out |-> deduplicate(results)]
  /\ UNCHANGED <<db, fault, conv, attr, look, run>>

DeduplicateAgain ==
  /\ dedup.called /\ ~dedup.twice
  /\ dedup' = [called |-> TRUE, twice |-> TRUE, results |-> dedup.results,
               out |-> dedup.out,
               again |-> deduplicate(dedup.out.deduplicated_results)]
  /\ UNCHANGED <<db, fault, conv, attr, look, run>>

NextDedup == Deduplicate \/ DeduplicateAgain

SpecDedup == InitDedup /\ [][NextDedup]_vars

----------------------------------------------------------------------------
(* export_to_excel, lines 879-951.  A sheet is the sequence of its rows,   *)
(* row 1 first; the header row is written with the column letters in place *)
(* of the header texts.  `tracked` lists, for each data row appended to    *)
(* the CDAP sheet, the value of current_row when it was appended, and      *)
(* `merges` the ranges of columns H and I passed to merge_cells with the   *)
(* values written to their first cell.                                     *)

\* lines 886-891 and 937-942: thirteen columns
base_headers == <<"A", "B", "C", "D", "E", "F", "G", "H", "I", "J", "K", "L", "M">>

\* lines 895 and 897
SheetStart ==
  [sheet |-> <<base_headers>>, current_row |-> 2, channel_merge_info |-> <<>>,
   tracked |-> <<>>, merges |-> <<>>]

\* lines 900-918: one turn of the loop over the rows of a result
sheet_row_step(row, st) ==
  LET channel == row[4]
  IN  [st EXCEPT
         !.sheet = Append(@, row),
         !.tracked = Append(@, st.current_row),
         !.channel_merge_info =
            IF channel \notin DOMAIN st.channel_merge_info
            THEN (channel :> [start_row |-> st.current_row, end_row |-> st.current_row,
                              cdap_actual_cost |-> row[8], original_cost |-> row[9]])
                   @@ st.channel_merge_info
            ELSE [st.channel_merge_info EXCEPT ![channel].end_row = st.current_row],
         !.current_row = @ + 1]

RECURSIVE sheet_row_loop(_, _)
sheet_row_loop(rows, st) ==
  IF rows = <<>> THEN st ELSE sheet_row_loop(Tail(rows), sheet_row_step(Head(rows), st))

merge_needed_always(info) == TRUE

\* line 922: only a channel of several rows is merged
merge_needed(info) == info.start_row < info.end_row

\* lines 921-927: the ranges merged for one result, as a sequence in any order
RECURSIVE merged_ranges(_, _)
merged_ranges(channels, channel_merge_info) ==
  IF channels = {} THEN <<>>
  ELSE LET channel == CHOOSE c \in channels : TRUE
           info == channel_merge_info[channel]
           rest == merged_ranges(channels \ {channel}, channel_merge_info)
       IN  IF merge_needed(info) THEN <<[channel |-> channel] @@ info>> \o rest ELSE rest

\* lines 920-934: the merges of a result, after its rows
sheet_merged(st) ==
  [st EXCEPT !.merges = @ \o merged_ranges(DOMAIN st.channel_merge_info,
                                           st.channel_merge_info)]

\* lines 896-934: the loop over validation_results; channel_merge_info is
\* new for each result
RECURSIVE sheet_result_loop(_, _)
sheet_result_loop(validation_results, st) ==
  IF validation_results = <<>> THEN st
  ELSE sheet_result_loop(Tail(validation_results),
         sheet_merged(sheet_row_loop(Head(validation_results).cdap_base_data,
                                     [st EXCEPT !.channel_merge_info = <<>>])))

\* lines 945-947: the ADS sheet, without merges
RECURSIVE ads_sheet_loop(_, _)
ads_sheet_loop(validation_results, sheet) ==
  IF validation_results = <<>> THEN sheet
  ELSE ads_sheet_loop(Tail(validation_results),
                      sheet \o Head(validation_results).ads_backend_data)

\* lines 879-951
workbook(cdap, ads_sheet) ==
  [written |-> TRUE, cdap_base_sheet |-> cdap.sheet, tracked |-> cdap.tracked,
   current_row |-> cdap.current_row, merges |-> cdap.merges,
   ads_backend_sheet |-> ads_sheet]

export_to_excel(validation_results) ==
  workbook(sheet_result_loop(validation_results, SheetStart),
           ads_sheet_loop(validation_results, <<base_headers>>))

\* no workbook yet
NoWorkbook == [written |-> FALSE]

----------------------------------------------------------------------------
(* The state machine of run_validation, lines 953-985.  The parameters     *)
(* are fixed with the store; `fault` is the failure the store shows while  *)
(* the current channel is validated, taken from run.plan, and no failure   *)
(* outside the loop over the channels.  Both channels belong to p1.        *)

\* db_configs['params']['date']: no such key, '' and a date
ParamDates == {None, Some(""), Some("d1")}

\* db_configs['params']['channels']: no such key, [] and lists of channels
ParamChannels == {None, Some(<<>>), Some(<<"a">>), Some(<<"a", "a_b">>), Some(<<"a_b", "a">>)}

CdapRow(ch, c, r) == <<"trend", "d1", "b1", ch, "s1", c, 1, 5, r, 3>>

AdsRow(id, ch, c, r) ==
  <<"trend_campaign", id, "d1", "b1", ch, "s1", c, 1, 5, r, Some("p1"), 3>>

CdapTables ==
  { << CdapRow("a", "c", Some(10000)), CdapRow("a", "c", Some(20000)),
       CdapRow("a_b", "c", None), CdapRow("a_b", "b_c", Some(10000)) >>,
    << CdapRow("a", "b_c", None) >> }

AdsTables ==
  { << AdsRow(1, "a", "c", Some(10000)), AdsRow(2, "a_b", "c", Some(20000)),
       AdsRow(1, "a", "c", Some(10000)), AdsRow(3, "a_b", "b_c", None) >>,
    << AdsRow(1, "a_b", "c", None) >> }

Failing(kind, step) == [k \in LookupKinds |-> IF k = kind THEN step ELSE "none"]

\* what the store may do while one channel is validated
RunFaults ==
  {NoFault} \cup {Failing("cost_by_channel", s) : s \in {"open", "execute", "close"}}
    \cup {Failing("cost", s) : s \in {"open", "execute"}}
    \cup {Failing("channel_total", "open")}
    \cup {Failing("cdap_rows", s) : s \in {"open", "execute"}}
    \cup {Failing("ads_rows", s) : s \in {"execute", "close"}}

\* the channels of usable parameters, <<>> otherwise
ChannelsOf(date, channels) ==
  IF date = None \/ channels = None THEN <<>>
  ELSE IF Len(Val(date)) = 0 THEN <<>> ELSE Val(channels)

InitRun ==
  /\ \E cdap \in CdapTables, ads \in AdsTables :
        db = [project |-> [pn \in PNs |-> Some(Some(11))],
              currency |-> [pn \in PNs |-> Some("INR")],
              rate |-> (<<"d1", "USD", "INR">> :> Some(800)),
              pn_of |-> [ch \in Channels |-> Some("p1")],
              ledger |-> [k \in LedgerKeys |-> LedgerCost(k)],
              cdap |-> cdap, ads |-> ads]
  /\ fault = NoFault
  /\ conv = NoCall
  /\ attr = NoCall
  /\ look = NoCall
  /\ dedup = NoCall
  /\ \E date \in ParamDates, channels \in ParamChannels :
       \E plan \in [1..Len(ChannelsOf(date, channels)) -> RunFaults] :
          run = [pc |-> "idle", date |-> date, channels |-> channels, plan |-> plan,
                 i |-> 0, validation_results |-> <<>>, retrievals |-> <<>>,
                 exported |-> FALSE, report |-> NoWorkbook]

params_rejected_never(dates, channels) == FALSE

\* line 960: not dates or not channels
params_rejected(dates, channels) == Len(dates) = 0 \/ Len(channels) = 0

\* lines 955-963 and 982-985: the parameters are read; a missing key
\* (KeyError) and rejected parameters (ValueError) are logged and raised
RunStart ==
  /\ run.pc = "idle"
  /\ IF run.date = None \/ run.channels = None
     THEN run' = [run EXCEPT !.pc = "aborted"] /\ UNCHANGED fault
     ELSE IF params_rejected(Val(run.date), Val(run.channels))
     THEN run' = [run EXCEPT !.pc = "aborted"] /\ UNCHANGED fault
     ELSE IF Len(Val(run.channels)) = 0
     THEN run' = [run EXCEPT !.pc = "export"] /\ UNCHANGED fault
     ELSE /\ run' = [run EXCEPT !.pc = "channels", !.i = 1]
          /\ fault' = run.plan[1]
  /\ UNCHANGED <<db, conv, attr, look, dedup>>

\* lines 967-969: one turn of the loop; an exception of
\* validate_single_channel goes to the except clause, which raises it again
Validated(result) ==
  /\ run' = IF result.raised
            THEN [run EXCEPT !.pc = "aborted",
                             !.retrievals = @ \o result.retrievals]
            ELSE [run EXCEPT !.pc = IF run.i < Len(Val(run.channels))
                                    THEN "channels" ELSE "export",
                             !.i = @ + 1,
                             !.validation_results = Append(@, result.record),
                             !.retrievals = @ \o result.retrievals]
  /\ fault' = IF ~result.raised /\ run.i < Len(Val(run.channels))
              THEN run.plan[run.i + 1] ELSE NoFault
  /\ UNCHANGED <<db, conv, attr, look, dedup>>

ValidateChannel ==
  /\ run.pc = "channels"
  /\ Validated(validate_single_channel(Val(run.channels)[run.i], Val(run.date)))

\* lines 972-980: the report is written and the summary printed
Export ==
  /\ run.pc = "export"
  /\ run' = [run EXCEPT !.pc = "done", !.exported = TRUE,
                        !.report = export_to_excel(run.validation_results)]
  /\ UNCHANGED <<db, fault, conv, attr, look, dedup>>

NextRun == RunStart \/ ValidateChannel \/ Export

SpecRun == InitRun /\ [][NextRun]_vars

----------------------------------------------------------------------------
(* Several records for one key: query_project_entity, get_currency_by_pn   *)
(* and query_rate_entity read ORDER BY create_time / created DESC LIMIT 1  *)
(* (lines 679-680, 706-707, 835-836).  In this state machine conv.tables   *)
(* holds the records of pn p1 and of the rate of d1 from USD to INR with   *)
(* their creation times, and `db` is what the three queries return from    *)
(* them in the current execution: a record that no other precedes in the   *)
(* order, and any one of them when several share the greatest time, since  *)
(* the order of the query does not tell them apart.  The tables are fixed; *)
(* the conversion and the attribution of one CDAP row are executed twice.  *)

ProjectRecords ==
  {[value |-> Some(11), created |-> 1], [value |-> None, created |-> 2],
   [value |-> Some(11), created |-> 2]}

CurrencyRecords ==
  {[value |-> "INR", created |-> 1], [value |-> "EUR", created |-> 2],
   [value |-> "INR", created |-> 2]}

RateRecords ==
  {[value |-> 800, created |-> 1], [value |-> 785, created |-> 2],
   [value |-> 800, created |-> 2]}

\* the longest list of executions over the same tables
MaxExecutions == 2

\* ORDER BY created DESC: the records that can come first
most_recent(records) == {r \in records : \A q \in records : q.created <= r.created}

\* LIMIT 1 and fetchone(): no row, or a first record of the order
fetchone(records) ==
  IF records = {} THEN {None} ELSE {Some(r.value) : r \in most_recent(records)}

InitRecent ==
  /\ db = [project |-> <<>>, currency |-> <<>>, rate |-> <<>>,
           pn_of |-> [ch \in Channels |-> Some("p1")],
           ledger |-> [k \in LedgerKeys |-> LedgerCost(k)]]
  /\ fault = NoFault
  /\ \E p \in SUBSET ProjectRecords, c \in SUBSET CurrencyRecords, r \in SUBSET RateRecords :
        conv = [called |-> FALSE, fetched |-> FALSE, outs |-> <<>>,
                tables |-> [project |-> p, currency |-> c, rate |-> r]]
  /\ attr = NoCall
  /\ look = NoCall
  /\ dedup = NoCall
  /\ run = NoRun

\* the queries of one execution are answered
Fetch ==
  /\ ~conv.fetched
  /\ Len(conv.outs) < MaxExecutions
  /\ \E p \in fetchone(conv.tables.project), c \in fetchone(conv.tables.currency),
        r \in fetchone(conv.tables.rate) :
        db' = [db EXCEPT !.project = [pn \in PNs |-> p],
                         !.currency = [pn \in PNs |-> c],
                         !.rate = (<<"d1", "USD", "INR">> :> r)]
  /\ conv' = [conv EXCEPT !.fetched = TRUE]
  /\ UNCHANGED <<fault, attr, look, dedup, run>>

\* one execution: currency_to_usd_with_details('d1', 1000.00, 'p1') and
\* process_cdap_data_with_cost of one row
Execute ==
  /\ conv.fetched
  /\ conv' = [conv EXCEPT
                !.called = TRUE,
                !.fetched = FALSE,
                !.outs = Append(@,
                  [convert |-> currency_to_usd_with_details("d1", Some(100000), Some("p1")).result,
                   rows |-> process_cdap_data_with_cost(
                              << CdapRow("a", "c", Some(10000)) >>).rows,
                   rate |-> db.rate[<<"d1", "USD", "INR">>],
                   currency |-> db.currency["p1"],
                   project |-> db.project["p1"]])]
  /\ UNCHANGED <<db, fault, attr, look, dedup, run>>

NextRecent == Fetch \/ Execute

SpecRecent == InitRecent /\ [][NextRecent]_vars

----------------------------------------------------------------------------
(* The older script, cdap和ads数据不一致验证脚本.py.  Its                     *)
(* query_project_entity and query_rate_entity have the text of the newer   *)
(* ones; its get_currency_by_pn (lines 450-456) reads no table; its        *)
(* currency_to_usd_with_details (lines 392-443) starts from the result     *)
(* USD / 1.0 / 1.0 and has no float() conversion and no try.  The outcome  *)
(* names the return statement taken: "args" (line 403), "currency" (line   *)
(* 418), "rate" (line 431), "converted" and "rate_zero" (line 443).        *)

\* lines 394-399
EmptyConversion_old ==
  [cost_usd |-> 0, currency |-> Some("USD"), rate |-> Some(10), extra_rate |-> Some(10)]

ConvOut_old(raised, result, branch) == [raised |-> raised, result |-> result, branch |-> branch]

\* lines 450-456 of the older script
get_currency_by_pn_old(pn) == Returned(IF pn = "IN" THEN Some("INR") ELSE Some("USD"))

\* lines 392-443 of the older script
currency_to_usd_with_details_old(dates, source_money, pn) ==
  IF source_money = None \/ pn = None
  THEN ConvOut_old(FALSE, EmptyConversion_old, "args")
  ELSE
  LET project_entity == query_project_entity(Val(pn)) IN
  IF project_entity.raised THEN ConvOut_old(TRUE, EmptyConversion_old, "raised")
  ELSE
  LET extra_rate == extra_rate_of(project_entity.value)
      r1 == [EmptyConversion_old EXCEPT !.extra_rate = Some(extra_rate)]
      extra_money == extra_money_of(Val(source_money), extra_rate)
      currency == get_currency_by_pn_old(Val(pn))
  IN
  IF currency.raised THEN ConvOut_old(TRUE, r1, "raised")
  ELSE IF ~TruthyStr(currency.value)
  THEN ConvOut_old(FALSE, [r1 EXCEPT !.cost_usd = Val(source_money)], "currency")
  ELSE
  LET r2 == [r1 EXCEPT !.currency = currency.value]
      queried == query_rate_entity(dates, "USD", Val(currency.value))
  IN
  IF queried.raised THEN ConvOut_old(TRUE, r2, "raised")
  ELSE IF queried.value = None /\ ~default_rate_applies(Val(currency.value))
  THEN ConvOut_old(FALSE, [r2 EXCEPT !.cost_usd = Val(source_money)], "rate")
  ELSE
  LET rate == IF queried.value = None THEN DefaultInrRate ELSE Val(queried.value)
      r3 == [r2 EXCEPT !.rate = Some(rate)]
  IN
  IF rate_usable(rate)
  THEN ConvOut_old(FALSE, [r3 EXCEPT !.cost_usd = RoundHalfEven(extra_money, rate)],
                   "converted")
  ELSE ConvOut_old(FALSE, [r3 EXCEPT !.cost_usd = Val(source_money)], "rate_zero")

\* lines 268-274 of the older script
EmptyCost_old ==
  [cost_usd |-> 0, original_cost |-> 0, currency |-> Some("USD"), rate |-> Some(10),
   extra_rate |-> Some(10)]

\* lines 331-336 of the older script
get_pn_by_campaign_id_old(campaign_id) == Some("IN")

\* lines 265-306 of the older script; its query_campaign_cost (lines 313-329)
\* has the text of the newer one
calculate_campaign_cost_with_details_old(dates, campaign_id) ==
  LET q == query_campaign_cost(dates, campaign_id)
      result == [EmptyCost_old EXCEPT !.original_cost = q.value]
      pn == get_pn_by_campaign_id_old(campaign_id)
  IN  IF q.raised THEN EmptyCost_old
      ELSE IF q.value = 0 THEN result
      ELSE IF ~TruthyStr(pn) THEN [result EXCEPT !.cost_usd = q.value]
      ELSE LET conversion == currency_to_usd_with_details_old(dates, Some(q.value), pn)
           IN  IF conversion.raised THEN result
               ELSE updated(result, conversion.result)

campaign_known_never(campaign_id, campaign_costs) == FALSE

\* line 239 of the older script: campaign_id not in campaign_costs
campaign_known(campaign_id, campaign_costs) == campaign_id \in DOMAIN campaign_costs

\* lines 234-242 of the older script: the loop that fills campaign_costs;
\* `invoked` lists the (dates, campaign_id) the cost was calculated for
RECURSIVE campaign_costs_loop(_, _)
campaign_costs_loop(rest, st) ==
  IF rest = <<>> THEN st
  ELSE LET row == Head(rest)
           campaign_id == row[6]
           dates == row[2]
       IN  campaign_costs_loop(Tail(rest),
             IF campaign_known(campaign_id, st.campaign_costs) THEN st
             ELSE [campaign_costs |->
                     (campaign_id :> calculate_campaign_cost_with_details_old(dates, campaign_id))
                       @@ st.campaign_costs,
                   invoked |-> Append(st.invoked, <<dates, campaign_id>>)])

\* lines 249-258 of the older script
new_row(row, cost_info) ==
  row \o <<cost_info.cost_usd, cost_info.original_cost, cost_info.currency,
           cost_info.rate, cost_info.extra_rate>>

\* lines 245-260 of the older script
costed_rows(results, st) ==
  [raised |-> FALSE,
   rows |-> [i \in DOMAIN results |-> new_row(results[i], st.campaign_costs[results[i][6]])],
   campaign_costs |-> st.campaign_costs,
   invoked |-> st.invoked]

\* lines 226-263 of the older script
process_ads_data_with_cost_old(results) ==
  IF results = <<>>
  THEN [raised |-> FALSE, rows |-> results, campaign_costs |-> <<>>, invoked |-> <<>>]
  ELSE costed_rows(results,
         campaign_costs_loop(results, [campaign_costs |-> <<>>, invoked |-> <<>>]))

\* the rows of the older ADS query once the id is dropped (lines 133-142):
\* table_name, dates, bdates, channel, source, campaign_id, active,
\* history_active_offset_days, threshold_value
AdsRows_old ==
  { <<"trend_campaign", d, "b1", "a", "s1", c, 1, 5, 3>> : d \in Dates, c \in Campaigns }

\* the pn of India and another one
PNs_old == {"IN", "p1"}

InitOld ==
  /\ \E p \in ProjectRows, c \in {None, Some("INR"), Some("EUR")},
        f \in [{"INR", "USD"} -> RateRows] :
        db = [project |-> [pn \in PNs_old |-> p],
              currency |-> [pn \in PNs_old |-> c],
              rate |-> [k \in {<<"d1", "USD", x>> : x \in {"INR", "USD"}} |-> f[k[3]]],
              pn_of |-> [ch \in Channels |-> Some("p1")],
              ledger |-> [k \in LedgerKeys |-> LedgerCost(k)]]
  /\ \E sp \in FaultSteps, sr \in {"none", "execute"}, sc \in {"none", "open"} :
        fault = [k \in LookupKinds |->
                   IF k = "project" THEN sp ELSE IF k = "rate" THEN sr
                   ELSE IF k = "cost" THEN sc ELSE "none"]
  /\ conv = NoCall
  /\ attr = NoCall
  /\ look = NoCall
  /\ dedup = NoCall
  /\ run = NoRun

ConvertOld(dates, source_money, pn) ==
  /\ conv' = [called |-> TRUE, dates |-> dates, source_money |-> source_money, pn |-> pn,
              out |-> currency_to_usd_with_details_old(dates, source_money, pn)]
  /\ UNCHANGED <<db, fault, attr, look, dedup, run>>

CallConvertOld ==
  ~attr.called /\ \E d \in Dates, m \in Amounts, p \in {None} \cup {Some(x) : x \in PNs_old} :
     ConvertOld(d, m, p)

ProcessAdsOld(results) ==
  /\ attr' = [called |-> TRUE, pipeline |-> "ads_old", results |-> results,
              out |-> process_ads_data_with_cost_old(results)]
  /\ UNCHANGED <<db, fault, conv, look, dedup, run>>

CallAdsOld ==
  ~attr.called /\ ~conv.called /\ \E results \in SeqsUpTo(AdsRows_old, MaxRows) : ProcessAdsOld(results)

NextOld == CallConvertOld \/ CallAdsOld

SpecOld == InitOld /\ [][NextOld]_vars

----------------------------------------------------------------------------
(* What the store and the faults hold for the conversion last called. *)

Abs(x) == IF x < 0 THEN -x ELSE x

\* c is n / d rounded to the nearest integer, a tie to the even one (d > 0)
IsRounded(c, n, d) ==
  /\ 2 * Abs(c * d - n) <= d
  /\ 2 * Abs(c * d - n) = d => c % 2 = 0

ConvNumeric == conv.called /\ conv.source_money # None /\ conv.pn # None

\* no query of the conversion leaves by an exception
ConvNoEscape == \A k \in ConvertKinds : fault[k] \in {"none", "execute"}

ProjectRowSeen ==
  IF fault["project"] = "none" THEN db.project[Val(conv.pn)] ELSE None

\* the multiplier in tenths the conversion is to use
ExtraRateSeen ==
  IF ProjectRowSeen = None \/ Val(ProjectRowSeen) = None THEN 10
  ELSE Val(Val(ProjectRowSeen))

CurrencyRowSeen ==
  IF fault["currency"] = "none" THEN db.currency[Val(conv.pn)] ELSE None

RateRowSeen ==
  IF fault["rate"] = "none" /\ CurrencyRowSeen # None
  THEN db.rate[<<conv.dates, "USD", Val(CurrencyRowSeen)>>]
  ELSE None

----------------------------------------------------------------------------
(* What the attribution last called was given and returned. *)

\* GroupKey of the specification: (dates, channel, campaign_id)
GroupKey(row) == <<row[2], row[4], row[6]>>

GroupKeysOf(rows) == {GroupKey(rows[i]) : i \in DOMAIN rows}

\* row i is the first row of its group in input order
FirstOfGroup(rows, i) == \A j \in 1..(i - 1) : GroupKey(rows[j]) # GroupKey(rows[i])

FirstIndex(rows, i) == CHOOSE j \in DOMAIN rows :
                          GroupKey(rows[j]) = GroupKey(rows[i]) /\ FirstOfGroup(rows, j)

AttrReturned == attr.called /\ ~attr.out.raised

\* the project whose currency converts the cost of row i's group
PnOfGroup(i) ==
  LET base == attr.results[FirstIndex(attr.results, i)]
  IN  IF attr.pipeline = "cdap" THEN db.pn_of[base[4]] ELSE base[10]

\* the cost of the group of row i under the strategy qualified by channel
GroupCostWithChannel(i) ==
  LET base == attr.results[FirstIndex(attr.results, i)]
  IN  calculate_campaign_cost_with_channel_details(
        base[2], base[6], base[4], PnOfGroup(i)).info

\* the cost of the group of row i under the strategy that ignores the channel
GroupCostWithoutChannel(i) ==
  LET base == attr.results[FirstIndex(attr.results, i)]
  IN  calculate_campaign_cost_with_details(base[2], base[6], PnOfGroup(i)).info

\* output row i carries the cost pair at positions p, p + 1 as the claim
\* says: the group's cost on the group's first row, zero on the others
CarriesCost(i, p, cost) ==
  (cost.original_cost # 0 \/ cost.cost_usd # 0)
  => IF FirstOfGroup(attr.results, i)
     THEN attr.out.rows[i][p] = cost.cost_usd /\ attr.out.rows[i][p + 1] = cost.original_cost
     ELSE attr.out.rows[i][p] = 0 /\ attr.out.rows[i][p + 1] = 0

Count(seq, x) == Cardinality({i \in DOMAIN seq : seq[i] = x})

\* the converted recharge of an input row, from the row alone
RechargeOfRow(pn, row) ==
  LET raw == IF row[9] = None THEN 0 ELSE Val(row[9])
  IN  IF raw > 0 /\ TruthyStr(pn)
      THEN currency_to_usd_with_details(row[2], Some(raw), pn).result.cost_usd
      ELSE 0

RowPn(i) ==
  IF attr.pipeline = "cdap" THEN db.pn_of[attr.results[i][4]] ELSE attr.results[i][10]

(* C1: in the output of an attribution call, every group of rows sharing   *)
(* (dates, channel, campaign_id) whose cost is not zero has that cost on   *)
(* its first row in input order and 0.0 in both cost fields of every other *)
(* row, for every input, rows with equal field values included.            *)
C1_CostOnFirstRowOnly ==
  AttrReturned =>
    \A i \in DOMAIN attr.results :
      /\ i \in DOMAIN attr.out.rows
      /\ CarriesCost(i, 10, GroupCostWithChannel(i))
      /\ attr.pipeline = "ads" => CarriesCost(i, 8, GroupCostWithoutChannel(i))

(* C2: in one attribution call each cost strategy is invoked at most once  *)
(* for each (dates, channel, campaign_id) of the input, the ledger is      *)
(* queried at most once for the campaign cost of a key, and the loop over  *)
(* the rows invokes no cost lookup.                                        *)
C2_CostOncePerGroup ==
  attr.called =>
    /\ \A k \in GroupKeysOf(attr.results) :
         /\ Count(attr.out.groups.invoked, <<"with_channel", k[1], k[2], k[3]>>) <= 1
         /\ Count(attr.out.groups.invoked, <<"without_channel", k[1], k[2], k[3]>>) <= 1
         /\ Count(attr.out.group_calls, <<"cost_by_channel", k[1], k[3], k[2]>>) <= 1
    /\ Len(attr.out.groups.invoked) <=
         (IF attr.pipeline = "ads" THEN 2 ELSE 1) * Cardinality(GroupKeysOf(attr.results))
    /\ \A n \in DOMAIN attr.out.row_calls :
         attr.out.row_calls[n][1] \notin {"cost", "cost_by_channel", "channel_total"}

C2_TwoRowsOneLookup ==
  /\ AttrReturned
  /\ attr.pipeline = "ads"
  /\ Len(attr.results) = 2
  /\ GroupKey(attr.results[1]) = GroupKey(attr.results[2])
  /\ attr.results[1] # attr.results[2]
  /\ attr.out.groups.invoked =
       << <<"without_channel", "d1", "a", "c">>, <<"with_channel", "d1", "a", "c">> >>
  /\ attr.out.group_calls =
       << <<"channel_total", "d1", "a">>, <<"cost", "d1", "c">>,
          <<"cost_by_channel", "d1", "c", "a">> >>
  /\ attr.out.rows[1][10] # 0

(* C3: the output of an attribution call has as many rows as its input and *)
(* its i-th row annotates the i-th input row, for every input.             *)
C3_OrderPreserved ==
  attr.called =>
    /\ ~attr.out.raised
    /\ Len(attr.out.rows) = Len(attr.results)
    /\ \A i \in DOMAIN attr.results :
         SubSeq(attr.out.rows[i], 1, 7) = SubSeq(attr.results[i], 1, 7)

(* C4 as claimed: two rows of one group with different day_recharge values *)
(* have different converted recharge amounts.                              *)
C4_DifferentRechargeDiffers ==
  AttrReturned =>
    \A i, j \in DOMAIN attr.results :
      (GroupKey(attr.results[i]) = GroupKey(attr.results[j])
         /\ attr.results[i][9] # attr.results[j][9])
      => attr.out.rows[i][12] # attr.out.rows[j][12]

(* C4 amended: the converted recharge of every row, first of its group or  *)
(* not, is the conversion of the row's own day_recharge with the row's     *)
(* project (0.0 when the value is NULL or not positive or there is no      *)
(* project), and the raw value is output unchanged; so two rows of a group *)
(* differ in it exactly when their own conversions differ.                 *)
C4_RechargePerRow ==
  AttrReturned =>
    \A i \in DOMAIN attr.results :
      /\ attr.out.rows[i][12] = RechargeOfRow(RowPn(i), attr.results[i])
      /\ attr.out.rows[i][13] = (IF attr.results[i][9] = None THEN 0
                                 ELSE Val(attr.results[i][9]))
      /\ (attr.results[i][2] = "d1" /\ RowPn(i) = Some("p1"))
         => /\ attr.results[i][9] = Some(10000) => attr.out.rows[i][12] = 138
            /\ attr.results[i][9] = Some(20000) => attr.out.rows[i][12] = 275

C4_SecondRowConverted ==
  /\ AttrReturned
  /\ attr.pipeline = "cdap"
  /\ Len(attr.results) = 2
  /\ GroupKey(attr.results[1]) = GroupKey(attr.results[2])
  /\ attr.results[1][9] = Some(10000) /\ attr.results[2][9] = Some(20000)
  /\ attr.out.rows[1][10] # 0 /\ attr.out.rows[2][10] = 0
  /\ attr.out.rows[1][12] = 138 /\ attr.out.rows[2][12] = 275

----------------------------------------------------------------------------
(* C5: currency_to_usd_with_details never raises, whatever the inputs and  *)
(* whichever lookup fails at whichever step; it returns a result.          *)
C5_ConvertNeverRaises == conv.called => ~conv.out.raised

(* C6: when the project, the currency and a non-zero rate all resolve,     *)
(* cost_usd is amount * extra_rate / rate rounded to two decimals; 1000    *)
(* with extra_rate 1.1 and rate 80.0 gives 13.75.                          *)
C6_RoundedQuotient ==
  (/\ ConvNumeric
   /\ fault["project"] = "none" /\ ProjectRowSeen # None
   /\ fault["currency"] = "none" /\ CurrencyRowSeen # None
   /\ RateRowSeen # None /\ Val(RateRowSeen) # 0)
  => /\ ~conv.out.raised
     /\ IsRounded(conv.out.result.cost_usd,
                  Val(conv.source_money) * ExtraRateSeen, Val(RateRowSeen))
     /\ (conv.source_money = Some(100000) /\ ExtraRateSeen = 11
           /\ RateRowSeen = Some(800))
        => conv.out.result.cost_usd = 1375

C6_Example ==
  /\ ConvNumeric
  /\ conv.source_money = Some(100000)
  /\ fault["project"] = "none" /\ ProjectRowSeen = Some(Some(11))
  /\ RateRowSeen = Some(800)
  /\ conv.out.result.cost_usd = 1375

(* C7: with no rate row for (date, USD, currency) and the currency "INR",  *)
(* the conversion uses 78.5: the result's rate is 78.5 and cost_usd is     *)
(* amount * extra_rate / 78.5 rounded to two decimals.                     *)
C7_InrDefaultRate ==
  (/\ ConvNumeric /\ ConvNoEscape
   /\ CurrencyRowSeen = Some("INR")
   /\ fault["rate"] = "none" /\ RateRowSeen = None)
  => /\ ~conv.out.raised
     /\ conv.out.result.rate = Some(785)
     /\ conv.out.result.currency = Some("INR")
     /\ IsRounded(conv.out.result.cost_usd,
                  Val(conv.source_money) * ExtraRateSeen, 785)

C7_InrWithoutRate ==
  /\ ConvNumeric /\ ConvNoEscape
  /\ CurrencyRowSeen = Some("INR")
  /\ fault["rate"] = "none" /\ RateRowSeen = None
  /\ conv.source_money = Some(78500) /\ ExtraRateSeen = 11
  /\ conv.out.result.cost_usd = 1100

(* C8 as claimed: with no rate row and a currency that is any string other *)
(* than "INR", cost_usd is 0.0, the currency is populated and the rate is  *)
(* null.                                                                   *)
C8_NotInrStringUnresolved ==
  (/\ ConvNumeric /\ ConvNoEscape
   /\ CurrencyRowSeen # None /\ CurrencyRowSeen # Some("INR")
   /\ fault["rate"] = "none" /\ RateRowSeen = None)
  => /\ conv.out.result.cost_usd = 0
     /\ conv.out.result.currency = CurrencyRowSeen
     /\ conv.out.result.rate = None

(* C8 amended: with no rate row and a currency whose upper-case form is    *)
(* not "INR", cost_usd is 0.0, the currency is populated and the rate is   *)
(* null; 78.5 is applied to "INR" in any letter case and to nothing else.  *)
C8_NotInrUnresolved ==
  (/\ ConvNumeric /\ ConvNoEscape
   /\ CurrencyRowSeen # None
   /\ fault["rate"] = "none" /\ RateRowSeen = None)
  => IF Upper(Val(CurrencyRowSeen)) # "INR"
     THEN /\ ~conv.out.raised
          /\ conv.out.result.cost_usd = 0
          /\ conv.out.result.currency = CurrencyRowSeen
          /\ conv.out.result.rate = None
     ELSE conv.out.result.rate = Some(785)

C8_EurWithoutRate ==
  /\ ConvNumeric /\ ConvNoEscape
  /\ CurrencyRowSeen = Some("EUR")
  /\ fault["rate"] = "none" /\ RateRowSeen = None
  /\ conv.source_money = Some(78500)
  /\ conv.out.result.currency = Some("EUR")
  /\ conv.out.result.cost_usd = 0

(* C9: when the project's currency cannot be resolved the conversion stops *)
(* with cost_usd 0.0, currency null and rate null; the amount is never     *)
(* passed through.                                                         *)
C9_UnresolvedCurrencyZero ==
  (/\ ConvNumeric /\ ConvNoEscape
   /\ CurrencyRowSeen = None)
  => /\ ~conv.out.raised
     /\ conv.out.result.cost_usd = 0
     /\ conv.out.result.currency = None
     /\ conv.out.result.rate = None

C9_NoCurrencyRow ==
  /\ ConvNumeric /\ ConvNoEscape
  /\ fault["currency"] = "none" /\ db.currency[Val(conv.pn)] = None
  /\ conv.source_money = Some(100000)
  /\ conv.out.result.extra_rate = Some(11)
  /\ conv.out.result.cost_usd = 0

(* C10: a rate of zero, or no rate in the result, gives cost_usd 0.0; the  *)
(* division is never executed with a zero divisor, and a zero rate does    *)
(* not make the call raise.                                                *)
C10_NoDivisionByZero ==
  conv.called =>
    /\ conv.out.divisor # Some(0)
    /\ "calculation" \notin conv.out.warnings
    /\ conv.out.result.rate \in {None, Some(0)} => conv.out.result.cost_usd = 0
    /\ (ConvNumeric /\ ConvNoEscape /\ RateRowSeen = Some(0))
       => /\ ~conv.out.raised
          /\ conv.out.result.rate = Some(0)
          /\ conv.out.result.cost_usd = 0

C10_ZeroRate ==
  /\ ConvNumeric /\ ConvNoEscape
  /\ RateRowSeen = Some(0)
  /\ conv.source_money = Some(100000)
  /\ conv.out.result.rate = Some(0)
  /\ conv.out.divisor = None

(* C11: for an amount of 0 or None the conversion returns cost_usd 0.0 and *)
(* does not raise, whether or not the project, the currency and the rate   *)
(* resolve.                                                                *)
C11_ZeroAmountSafe ==
  (conv.called /\ conv.source_money \in {None, Some(0)})
  => /\ ~conv.out.raised
     /\ conv.out.result.cost_usd = 0

(* C12: when no project row is found for the pn, the conversion uses the   *)
(* multiplier 1.0, logs a warning about the project, and goes on to        *)
(* resolve the currency and the rate.                                      *)
C12_ProjectAbsentWarned ==
  (/\ ConvNumeric /\ ConvNoEscape
   /\ fault["project"] = "none" /\ db.project[Val(conv.pn)] = None)
  => /\ ~conv.out.raised
     /\ conv.out.result.extra_rate = Some(DefaultExtraRate)
     /\ "project" \in conv.out.warnings
     /\ conv.out.result.currency = CurrencyRowSeen

----------------------------------------------------------------------------
(* What the ledger query last called was given. *)

\* the query was one of the two campaign cost sums
CostSumCalled == look.called /\ look.op \in {"cost", "cost_by_channel"}

\* the campaign_id given is missing, empty or made of spaces only
CampaignIdBlank ==
  \/ look.campaign_id = None
  \/ \A i \in 1..Len(Val(look.campaign_id)) :
        SubSeq(Val(look.campaign_id), i, i) = " "

(* C15: the two campaign cost sums catch every error of the backing store  *)
(* and return 0.0 for it; no cost query leaves by an exception.            *)
C15_CostSumCatchesEveryError ==
  CostSumCalled =>
    /\ ~look.out.raised
    /\ fault[look.op] # "none" => look.out.value = 0

(* C16: for a campaign_id that is missing, empty or made of whitespace     *)
(* only, the two campaign cost sums return 0.0 and open no session on the  *)
(* backing store.                                                          *)
C16_BlankCampaignNotQueried ==
  CostSumCalled =>
    IF CampaignIdBlank
    THEN /\ ~look.out.raised
         /\ look.out.value = 0
         /\ ~look.out.queried
    ELSE look.out.queried

C16_SpacesOnlyCampaign ==
  /\ CostSumCalled
  /\ look.op = "cost_by_channel"
  /\ look.campaign_id = Some("  ")
  /\ fault["cost_by_channel"] = "open"
  /\ <<look.dates, "c", Val(look.channel)>> \in DOMAIN db.ledger
  /\ ~look.out.queried
  /\ ~look.out.raised
  /\ look.out.value = 0

----------------------------------------------------------------------------
(* What the deduplication last called was given and returned. *)

\* the positions of the input rows that are the first to carry their id
FirstOccurrences(rows) ==
  {i \in DOMAIN rows : \A j \in 1..(i - 1) : rows[j][2] # rows[i][2]}

\* the n-th smallest member of a set of positions
Nth(S, n) == CHOOSE i \in S : Cardinality({j \in S : j < i}) = n - 1

\* a raw row without its id field
WithoutId(row) == [n \in 1..(Len(row) - 1) |-> IF n = 1 THEN row[1] ELSE row[n + 1]]

(* C17: deduplication keeps, for each id, exactly the first row carrying   *)
(* it, in the original order and without the id field, and logs one        *)
(* warning naming the id for each discarded row; kept rows plus warnings   *)
(* number the input rows, and an empty input gives an empty output.        *)
C17_FirstOccurrencesKept ==
  dedup.called =>
    LET rows == dedup.results
        firsts == FirstOccurrences(rows)
        others == DOMAIN rows \ firsts
        out == dedup.out
    IN  /\ Len(out.deduplicated_results) = Cardinality(firsts)
        /\ \A n \in DOMAIN out.deduplicated_results :
              out.deduplicated_results[n] = WithoutId(rows[Nth(firsts, n)])
        /\ Len(out.warnings) = Cardinality(others)
        /\ \A n \in DOMAIN out.warnings : out.warnings[n] = rows[Nth(others, n)][2]
        /\ Len(out.deduplicated_results) + Len(out.warnings) = Len(rows)
        /\ rows = <<>> => out.deduplicated_results = <<>> /\ out.warnings = <<>>

C17_DuplicateDiscarded ==
  /\ dedup.called
  /\ Len(dedup.results) = 3
  /\ dedup.results[1][2] = 2 /\ dedup.results[2][2] = 1 /\ dedup.results[3][2] = 2
  /\ dedup.results[1][8] # dedup.results[3][8]
  /\ dedup.out.deduplicated_results =
       <<WithoutId(dedup.results[1]), WithoutId(dedup.results[2])>>
  /\ dedup.out.warnings = <<2>>

----------------------------------------------------------------------------
(* What the run holds. *)

RunChannels == ChannelsOf(run.date, run.channels)

\* a failure of the campaign cost lookups alone
CostLookupFault(f) ==
  /\ f # NoFault
  /\ \A k \in LookupKinds \ {"cost", "cost_by_channel"} : f[k] = "none"

\* the record of the i-th channel of a store without failure; `fault` is
\* NoFault once the loop over the channels is over
RecordWithoutFailure(i) == validate_single_channel(RunChannels[i], Val(run.date)).record

\* the cost fields of the strategies that failed, of a CDAP and of an ADS row
ZeroedCdap(f) == IF f["cost_by_channel"] # "none" THEN {10, 11} ELSE {}

ZeroedAds(f) ==
  (IF f["cost"] # "none" THEN {8, 9} ELSE {})
    \cup (IF f["cost_by_channel"] # "none" THEN {10, 11} ELSE {})

\* the rows are those of `clean` but for the fields `zeroed`, which are 0
RowsWithZeroed(rows, clean, zeroed) ==
  /\ Len(rows) = Len(clean)
  /\ \A n \in DOMAIN rows :
       /\ Len(rows[n]) = Len(clean[n])
       /\ \A j \in DOMAIN rows[n] :
            rows[n][j] = IF j \in zeroed THEN 0 ELSE clean[n][j]

\* C13: in a run of usable parameters, when the campaign cost lookup fails
\* (at any step) while some channels are validated and nothing else fails, the
\* run is not aborted, and
\* once the loop is over there is one record per channel in order: the record
\* of a channel validated without failure is the one a store without failure
\* gives, and the record of a channel validated under the failure has the rows
\* a store without failure gives, with the cost fields of the failed lookup 0.
C13_CostFailureIsolated ==
  (/\ Len(RunChannels) > 0
   /\ \A i \in DOMAIN run.plan : run.plan[i] = NoFault \/ CostLookupFault(run.plan[i]))
  => /\ run.pc # "aborted"
     /\ run.pc \in {"export", "done"}
        => /\ Len(run.validation_results) = Len(RunChannels)
           /\ \A i \in DOMAIN RunChannels :
                /\ run.validation_results[i].channel = RunChannels[i]
                /\ run.plan[i] = NoFault
                   => run.validation_results[i] = RecordWithoutFailure(i)
                /\ CostLookupFault(run.plan[i])
                   => /\ RowsWithZeroed(run.validation_results[i].cdap_base_data,
                                        RecordWithoutFailure(i).cdap_base_data,
                                        ZeroedCdap(run.plan[i]))
                      /\ RowsWithZeroed(run.validation_results[i].ads_backend_data,
                                        RecordWithoutFailure(i).ads_backend_data,
                                        ZeroedAds(run.plan[i]))

\* a finished run of two channels: the lookup raised for the second one, whose
\* store without failure gives a row with a cost, and not for the first one
C13_SecondChannelLookupRaised ==
  /\ run.pc = "done"
  /\ Len(RunChannels) = 2
  /\ run.plan[1] = NoFault
  /\ run.plan[2] = Failing("cost_by_channel", "open")
  /\ Len(run.validation_results[1].cdap_base_data) > 0
  /\ \E n \in DOMAIN RecordWithoutFailure(2).cdap_base_data :
       /\ RecordWithoutFailure(2).cdap_base_data[n][10] # 0
       /\ run.validation_results[2].cdap_base_data[n][10] = 0

\* a failure of the detail-row retrievals alone
RetrievalFault(f) ==
  /\ f["cdap_rows"] # "none" \/ f["ads_rows"] # "none"
  /\ \A k \in LookupKinds \ {"cdap_rows", "ads_rows"} : f[k] = "none"

\* C14: in a run of usable parameters, when the retrieval of either pipeline
\* fails (at any step) while some channels are validated and nothing else
\* fails, the run is not aborted, and once the loop is over there is one record
\* per channel in order, with no rows on the side whose retrieval failed.
C14_RetrievalFailureIsolated ==
  (/\ Len(RunChannels) > 0
   /\ \A i \in DOMAIN run.plan : run.plan[i] = NoFault \/ RetrievalFault(run.plan[i]))
  => /\ run.pc # "aborted"
     /\ run.pc \in {"export", "done"}
        => /\ Len(run.validation_results) = Len(RunChannels)
           /\ \A i \in DOMAIN RunChannels :
                /\ run.validation_results[i].channel = RunChannels[i]
                /\ run.plan[i]["cdap_rows"] # "none"
                   => run.validation_results[i].cdap_base_data = <<>>
                /\ run.plan[i]["ads_rows"] # "none"
                   => run.validation_results[i].ads_backend_data = <<>>

\* the parameters lack a date or a list of channels, missing or empty
ParamsUnusable ==
  \/ run.date = None
  \/ run.channels = None
  \/ Len(Val(run.date)) = 0
  \/ Len(Val(run.channels)) = 0

\* C19: a run whose parameters lack a date or a list of channels (missing or
\* empty) goes from its start to the raised exception only: no retrieval is
\* called, hence no lookup, no record is made and no report is written.
C19_UnusableParamsAbortFirst ==
  ParamsUnusable
  => /\ run.pc \in {"idle", "aborted"}
     /\ run.retrievals = <<>>
     /\ run.validation_results = <<>>
     /\ ~run.exported

\* the run of a date and an empty list of channels has raised
C19_EmptyChannelsRaised ==
  /\ run.pc = "aborted"
  /\ run.date = Some("d1")
  /\ run.channels = Some(<<>>)

\* C20: a run that has completed has written the report of one record per
\* configured channel, and a run that has aborted had unusable parameters and
\* had called no retrieval and made no record.
C20_CompleteOrAbortedFirst ==
  /\ run.pc = "done"
     => /\ run.exported
        /\ Len(run.validation_results) = Len(RunChannels)
        /\ \A i \in DOMAIN RunChannels : run.validation_results[i].channel = RunChannels[i]
  /\ run.pc = "aborted"
     => /\ ParamsUnusable
        /\ run.retrievals = <<>>
        /\ run.validation_results = <<>>

\* the retrievals of a run that validates all of `channels`, in order
RECURSIVE RetrievalsOf(_)
RetrievalsOf(channels) ==
  IF Len(channels) = 0 THEN <<>>
  ELSE << <<"cdap", Head(channels)>>, <<"ads", Head(channels)>> >>
         \o RetrievalsOf(Tail(channels))

IsPrefix(s, t) == Len(s) <= Len(t) /\ s = SubSeq(t, 1, Len(s))

\* C21: the retrievals called so far are the first ones of the sequence
\* "CDAP then ADS of the first channel, CDAP then ADS of the second, ..." over
\* the configured list; the records are those of the first channels of the
\* list in its order, each made after both retrievals of its channel and
\* before any retrieval of the next; and the report is written only when
\* every channel of the list has its record.
C21_SequentialInListOrder ==
  /\ IsPrefix(run.retrievals, RetrievalsOf(RunChannels))
  /\ Len(run.validation_results) <= Len(RunChannels)
  /\ \A i \in DOMAIN run.validation_results :
       run.validation_results[i].channel = RunChannels[i]
  /\ run.pc # "aborted" => Len(run.retrievals) = 2 * Len(run.validation_results)
  /\ run.pc \in {"export", "done"} => Len(run.validation_results) = Len(RunChannels)
  /\ run.exported => run.pc = "done"

\* a run of two channels has written its report
C21_TwoChannelsExported ==
  /\ run.exported
  /\ Len(RunChannels) = 2
  /\ Len(run.retrievals) = 4

----------------------------------------------------------------------------
(* The caches of one attribution call. *)

\* the lookups of the call, those of the loop over the groups first
AllCalls == attr.out.group_calls \o attr.out.row_calls

PnLookups(ch) == Count(AllCalls, <<"pn", ch>>)

TotalLookups(ch) ==
  Cardinality({i \in DOMAIN AllCalls :
                 AllCalls[i][1] = "channel_total" /\ AllCalls[i][3] = ch})

\* the base rows of the groups, in the order of the loop over the groups
BaseRows ==
  [i \in DOMAIN group_keys(attr.results) |->
     group_rows(attr.results, group_keys(attr.results)[i])[1]]

\* the base row of the first group of channel ch
FirstOfChannel(ch) == SelectSeq(BaseRows, LAMBDA row : row[4] = ch)[1]

\* the pn the loop over the groups has for the first group of channel ch
PnOfChannel(ch) ==
  IF attr.pipeline = "cdap" THEN db.pn_of[ch] ELSE FirstOfChannel(ch)[10]

C23_ZeroRechargeResolvesAsConvert ==
  AttrReturned
  => \A i \in DOMAIN attr.results :
       (day_recharge_of(attr.results[i][9]) = 0 /\ TruthyStr(RowPn(i)))
       => /\ attr.out.recharge[i].cost_usd = 0
          /\ attr.out.recharge[i].currency
               = currency_to_usd_with_details(attr.results[i][2], Some(0), RowPn(i)).result.currency
          /\ attr.out.recharge[i].rate
               = currency_to_usd_with_details(attr.results[i][2], Some(0), RowPn(i)).result.rate
          /\ attr.out.recharge[i].extra_rate
               = currency_to_usd_with_details(attr.results[i][2], Some(0), RowPn(i)).result.extra_rate

----------------------------------------------------------------------------
(* Executions over the same tables. *)

\* what a query returned is the value of a record of the table with the
\* greatest creation time, or nothing from an empty table
UsedMostRecent(returned, records) ==
  IF records = {} THEN returned = None
  ELSE \E r \in records :
         /\ returned = Some(r.value)
         /\ \A q \in records : q.created <= r.created

\* C24: the executions of the conversion and of the attribution call over the
\* same tables and inputs have identical outputs, and each execution used,
\* of the records of a key, one with the greatest creation time.
C24_SameOutputMostRecentUsed ==
  /\ \A i, j \in DOMAIN conv.outs :
       /\ conv.outs[i].convert = conv.outs[j].convert
       /\ conv.outs[i].rows = conv.outs[j].rows
  /\ \A i \in DOMAIN conv.outs :
       /\ UsedMostRecent(conv.outs[i].project, conv.tables.project)
       /\ UsedMostRecent(conv.outs[i].currency, conv.tables.currency)
       /\ UsedMostRecent(conv.outs[i].rate, conv.tables.rate)

----------------------------------------------------------------------------
(* The shape of an output row. *)

\* the cost record of row i for a strategy: that of its group on a row the
\* loop over the rows takes for the first of the group, zeroed on the others
CostOfRow(i, group_costs) ==
  cost_info_of(is_first_record(attr.results[i],
                               group_rows(attr.results, key_of(attr.results[i]))),
               group_costs[key_of(attr.results[i])])

FirstCost(i) ==
  IF attr.pipeline = "cdap" THEN attr.out.groups.total_cache[attr.results[i][4]]
  ELSE CostOfRow(i, attr.out.groups.costs_without_channel)

SecondCost(i) ==
  IF attr.pipeline = "cdap" THEN CostOfRow(i, attr.out.groups.group_costs)
  ELSE CostOfRow(i, attr.out.groups.costs_with_channel)

\* C25: an attribution call that returned gives one row per input row, of
\* thirteen fields: the first seven fields of the input row as they are, the
\* first cost pair (USD, original), the second cost pair (USD, original), the
\* recharge in USD and the recharge as read (0 for NULL); the offset days, the
\* threshold and the pn of the input row are not in it.
C25_OutputRowShape ==
  AttrReturned
  => /\ Len(attr.out.rows) = Len(attr.results)
     /\ \A i \in DOMAIN attr.results :
          /\ Len(attr.out.rows[i]) = 13
          /\ \A j \in 1..7 : attr.out.rows[i][j] = attr.results[i][j]
          /\ attr.out.rows[i][8] = FirstCost(i).cost_usd
          /\ attr.out.rows[i][9] = FirstCost(i).original_cost
          /\ attr.out.rows[i][10] = SecondCost(i).cost_usd
          /\ attr.out.rows[i][11] = SecondCost(i).original_cost
          /\ attr.out.rows[i][12] = attr.out.recharge[i].cost_usd
          /\ attr.out.rows[i][13] = day_recharge_of(attr.results[i][9])

\* an ADS row with a pn whose two cost pairs differ and whose recharge was
\* converted
C25_AdsRowWithBothPairs ==
  /\ AttrReturned
  /\ attr.pipeline = "ads"
  /\ Len(attr.results) = 1
  /\ attr.results[1][10] = Some("p1")
  /\ attr.out.rows[1][9] # attr.out.rows[1][11]
  /\ attr.out.rows[1][8] # attr.out.rows[1][9]
  /\ attr.out.rows[1][12] > 0
  /\ attr.out.rows[1][12] # attr.out.rows[1][13]

----------------------------------------------------------------------------
(* The older script. *)

\* a conversion of the older script, with both arguments, has returned
OldConverted == conv.called /\ ~conv.out.raised /\ conv.source_money # None /\ conv.pn # None

\* C26: in the older script a conversion for a pn whose currency
\* cannot be resolved (project_currency_config has no row for it) returns by
\* the unresolved-currency branch, with the original amount as cost_usd.
C26_UnresolvedCurrencyPassesAmount ==
  (OldConverted /\ db.currency[Val(conv.pn)] = None)
  => /\ conv.out.branch = "currency"
     /\ conv.out.result.cost_usd = Val(conv.source_money)

\* the index of the first row of the campaign_id of row i
FirstOfCampaign(i) ==
  CHOOSE j \in DOMAIN attr.results :
    /\ attr.results[j][6] = attr.results[i][6]
    /\ \A k \in 1..(j - 1) : attr.results[k][6] # attr.results[i][6]

\* C27: process_ads_data_with_cost of the older script gives one row per input
\* row, the nine fields of the input row followed by cost_usd, original_cost,
\* currency, rate and extra_rate; the cost is calculated once for each
\* campaign_id of the rows, with the date of the first row that carries it,
\* and every row of the campaign_id carries that cost in full.
C27_OldAdsSharesCampaignCost ==
  attr.called
  => /\ ~attr.out.raised
     /\ Len(attr.out.rows) = Len(attr.results)
     /\ Len(attr.out.invoked) = Cardinality({attr.results[i][6] : i \in DOMAIN attr.results})
     /\ \A i \in DOMAIN attr.results :
          /\ Count(attr.out.invoked,
                   <<attr.results[FirstOfCampaign(i)][2], attr.results[i][6]>>) = 1
          /\ attr.out.rows[i]
               = attr.results[i]
                   \o <<attr.out.campaign_costs[attr.results[i][6]].cost_usd,
                        attr.out.campaign_costs[attr.results[i][6]].original_cost,
                        attr.out.campaign_costs[attr.results[i][6]].currency,
                        attr.out.campaign_costs[attr.results[i][6]].rate,
                        attr.out.campaign_costs[attr.results[i][6]].extra_rate>>
          /\ attr.out.campaign_costs[attr.results[i][6]]
               = calculate_campaign_cost_with_details_old(
                   attr.results[FirstOfCampaign(i)][2], attr.results[i][6])

\* two rows of one campaign_id, of d1 and then of d2: both carry the non-zero
\* cost of d1, which is not the cost of d2
C27_SecondRowCarriesFirstDateCost ==
  /\ attr.called
  /\ Len(attr.results) = 2
  /\ attr.results[1][6] = attr.results[2][6]
  /\ attr.results[1][2] = "d1" /\ attr.results[2][2] = "d2"
  /\ attr.out.rows[1][10] > 0
  /\ attr.out.rows[2][10] = attr.out.rows[1][10]
  /\ attr.out.rows[2][11] = attr.out.rows[1][11]
  /\ attr.out.rows[2][11]
       # calculate_campaign_cost_with_details_old("d2", attr.results[2][6]).original_cost

----------------------------------------------------------------------------
(* The report. *)

\* the sheet rows of the CDAP rows of the i-th record: they follow the header
\* and the rows of the records before it
RECURSIVE RowsBefore(_)
RowsBefore(i) ==
  IF i <= 1 THEN 0
  ELSE RowsBefore(i - 1) + Len(run.validation_results[i - 1].cdap_base_data)

BlockOf(i) ==
  (RowsBefore(i) + 2)..(RowsBefore(i) + 1 + Len(run.validation_results[i].cdap_base_data))

MergeRows(m) == m.start_row..m.end_row

\* C28: in the report written, the row counter tracked for the n-th data row
\* appended is n + 1, the sheet row it is in (the header is row 1), across the
\* records; a range is merged for a record's rows of a channel exactly when
\* they are more than one, and it is the block of these rows, no more and no
\* less; the merged ranges are pairwise disjoint and hold rows of their channel
\* only.
C28_MergesAreChannelBlocks ==
  run.exported
  => /\ \A n \in DOMAIN run.report.tracked :
          /\ run.report.tracked[n] = n + 1
          /\ run.report.cdap_base_sheet[n + 1]
               = run.validation_results[
                   CHOOSE i \in DOMAIN run.validation_results : (n + 1) \in BlockOf(i)
                 ].cdap_base_data[n + 1 - (RowsBefore(
                   CHOOSE i \in DOMAIN run.validation_results : (n + 1) \in BlockOf(i)) + 1)]
     /\ run.report.current_row = Len(run.report.cdap_base_sheet) + 1
     /\ \A i \in DOMAIN run.validation_results :
          Len(run.validation_results[i].cdap_base_data) > 1
          <=> \E k \in DOMAIN run.report.merges :
                MergeRows(run.report.merges[k]) = BlockOf(i)
     /\ \A k \in DOMAIN run.report.merges :
          /\ run.report.merges[k].start_row < run.report.merges[k].end_row
          /\ \E i \in DOMAIN run.validation_results :
               MergeRows(run.report.merges[k]) = BlockOf(i)
          /\ \A r \in MergeRows(run.report.merges[k]) :
               run.report.cdap_base_sheet[r][4] = run.report.merges[k].channel
          /\ \A l \in DOMAIN run.report.merges :
               l # k => MergeRows(run.report.merges[k]) \cap MergeRows(run.report.merges[l]) = {}

\* a report of two channels of two rows each: rows 2-3 and rows 4-5 are merged
C28_TwoBlocksMerged ==
  /\ run.exported
  /\ Len(run.report.merges) = 2
  /\ {MergeRows(run.report.merges[k]) : k \in 1..2} = {2..3, 4..5}
  /\ run.report.cdap_base_sheet[3][4] # run.report.cdap_base_sheet[4][4]

----------------------------------------------------------------------------
(* The partition of the rows. *)

\* C29: in an attribution call two rows are put in the same group exactly
\* when their dates, channels and campaign ids are equal, and the rows of a
\* group are the rows of its triple in the order of the input.
C29_GroupsAreTriples ==
  attr.called /\ attr.pipeline \in {"cdap", "ads"}
  => /\ \A i, j \in DOMAIN attr.results :
          key_of(attr.results[i]) = key_of(attr.results[j])
          <=> GroupKey(attr.results[i]) = GroupKey(attr.results[j])
     /\ \A i \in DOMAIN attr.results :
          group_rows(attr.results, key_of(attr.results[i]))
            = SelectSeq(attr.results,
                        LAMBDA row : GroupKey(row) = GroupKey(attr.results[i]))

\* the channel total of the (date, channel) of row i, converted with the pn of
\* the channel
TotalOfRow(i) ==
  channel_total_entry(attr.results[i][2], attr.results[i][4],
                      db.pn_of[attr.results[i][4]]).entry

\* C30: in the rows returned by process_cdap_data_with_cost the two channel
\* total fields of each row are the ledger total of the row's own date and
\* channel, in USD and as read, so rows of one date and channel carry the same
\* values.
C30_ChannelTotalOfOwnDate ==
  AttrReturned /\ attr.pipeline = "cdap"
  => \A i \in DOMAIN attr.results :
       /\ attr.out.rows[i][8] = TotalOfRow(i).cost_usd
       /\ attr.out.rows[i][9] = TotalOfRow(i).original_cost

============================================================================
